---------------------------- MODULE Spec2Model ----------------------------
(***************************************************************************)
(* Notification service: configuration loading, route registration,        *)
(* request dispatch and the two entry points.                              *)
(*                                                                         *)
(*   services/notification/main.py               (EntryFlat)               *)
(*   services/notification/notification/main.py  (EntryPackage)            *)
(*   services/notification/notification/config/config.py                   *)
(*                                                                         *)
(* One behaviour is one process: the module is imported (its routes are    *)
(* registered in source order), the __main__ block runs, and the server    *)
(* answers requests until the process ends.                                *)
(*                                                                         *)
(* Texts that the program converts are sequences of characters (the port   *)
(* variable) or sequences of path tokens (request paths); texts it only    *)
(* copies are strings.  An optional value is <<>> or <<v>>.                *)
(***************************************************************************)
EXTENDS Integers, Sequences, FiniteSets, Bags, TLC

VARIABLES
    entry,      \* which module runs as __main__
    env,        \* the process environment: [host, port], each <<>> or <<text>>
    pc,         \* position of the process
    routes,     \* app.router.routes, in registration order
    config,     \* the Config object of __main__: <<>> or <<[server |-> ...]>>
    nLoads,     \* number of Config objects constructed so far
    stdout,     \* lines printed
    bound,      \* address handed to uvicorn.run: <<>> or <<[host, port]>>
    exitReason, \* why the process ended: <<>> or <<reason>>
    inflight,   \* bag of requests received and not yet answered
    last        \* the latest exchange: <<>> or <<[req, resp]>>

vars == <<entry, env, pc, routes, config, nLoads, stdout, bound, exitReason,
          inflight, last>>

-----------------------------------------------------------------------------
(* Bounds *)

MaxInflight == 2

-----------------------------------------------------------------------------
(* Environment *)

EntryFlat == "services/notification/main.py"

EntryPackage == "services/notification/notification/main.py"

Entries == {EntryFlat, EntryPackage}

Digits == {"0", "1", "2", "3", "4", "5", "6", "7", "8", "9"}

\* The environment holds the two variables the service reads,
\* NOTIFICATION_SERVER_HOST and NOTIFICATION_SERVER_PORT, each set or unset.
\* A JSON-valued NOTIFICATION_SERVER variable is not part of the model.
\* Values of NOTIFICATION_SERVER_PORT, character by character.
PortTexts ==
    { <<"9", "0", "9", "0">>, <<"8", "0", "8", "0">>, <<"0">>,
      <<"6", "5", "5", "3", "6">>, <<"-", "1">>, <<"+", "8", "0">>, <<"0", "0", "7">>,
      <<>>, <<"-">>, <<"a", "b", "c">>, <<"9", "0", "x">>, <<"9", "-", "0">> }

HostTexts == {"127.0.0.1", "localhost"}

Option(S) == {<<>>} \cup {<<v>> : v \in S}

Environments == [host : Option(HostTexts), port : Option(PortTexts)]

-----------------------------------------------------------------------------
(* config/config.py *)

DefaultHost == "0.0.0.0"

IsSign(c) == c \in {"-", "+"}

Unsigned(s) == IF s # <<>> /\ IsSign(s[1]) THEN Tail(s) ELSE s

\* The text is an optional sign followed by one or more decimal digits.
IsIntText(s) == Unsigned(s) # <<>> /\ \A i \in DOMAIN Unsigned(s) : Unsigned(s)[i] \in Digits

DigitVal(c) == CHOOSE d \in 0..9 : <<"0", "1", "2", "3", "4", "5", "6", "7", "8", "9">>[d + 1] = c

RECURSIVE DigitsValue(_)
DigitsValue(s) == IF s = <<>> THEN 0 ELSE 10 * DigitsValue(SubSeq(s, 1, Len(s) - 1)) + DigitVal(s[Len(s)])

\* Variant: the sign of the text is dropped.
IntOf_SignDropped(s) == DigitsValue(Unsigned(s))

IntOf(s) == IF s # <<>> /\ s[1] = "-" THEN 0 - DigitsValue(Unsigned(s)) ELSE DigitsValue(Unsigned(s))

Loaded(server) == [ok |-> TRUE, server |-> <<server>>, error |-> <<>>]

ValidationError(kind) == [ok |-> FALSE, server |-> <<>>, error |-> <<kind>>]

\* Variant: port declared with a default (port: int = 8080).
ServerConfig_DefaultPort(values) ==
    IF values.port # <<>> /\ ~IsIntText(values.port[1]) THEN ValidationError("int_parsing")
    ELSE Loaded([host |-> IF values.host = <<>> THEN DefaultHost ELSE values.host[1],
                 port |-> IF values.port = <<>> THEN 8080 ELSE IntOf(values.port[1])])

\* class ServerConfig(BaseModel): host has a default, port is a required int.
ServerConfig(values) ==
    IF values.port = <<>> THEN ValidationError("missing")
    ELSE IF ~IsIntText(values.port[1]) THEN ValidationError("int_parsing")
    ELSE Loaded([host |-> IF values.host = <<>> THEN DefaultHost ELSE values.host[1],
                 port |-> IntOf(values.port[1])])

\* class Config(BaseSettings): the field server is built from the variables
\* NOTIFICATION_SERVER_<key>; with none of them set the field itself is missing.
Config(e) ==
    IF e.host = <<>> /\ e.port = <<>> THEN ValidationError("missing")
    ELSE ServerConfig([host |-> e.host, port |-> e.port])

load_config(e) == Config(e)

-----------------------------------------------------------------------------
(* The HTTP application: main.py and notification/main.py, module level *)

Methods == {"GET", "POST"}

\* A path is its sequence of tokens: "/metrics/" is <<"/", "metrics", "/">>.
Paths ==
    { <<"/">>, <<"/", "health">>, <<"/", "health", "/">>,
      <<"/", "metrics">>, <<"/", "metrics", "/">>, <<"/", "x">> }

Requests == [method : Methods, path : Paths]

Mount(path, sub) == [kind |-> "mount", path |-> path, methods |-> Methods, endpoint |-> sub]

Get(path, endpoint) == [kind |-> "route", path |-> path, methods |-> {"GET"}, endpoint |-> endpoint]

\* services/notification/main.py
FlatRegistrations ==
    << Mount(<<"/", "metrics">>, "metrics_app"),
       Get(<<"/", "health">>, "health_check"),
       Get(<<"/">>, "root") >>

flat_health_check == { <<"status", "healthy">> }

\* Variant: the flat module left at an older version string.
flat_root_OldVersion == { <<"service", "notification">>, <<"version", "0.9.0">> }

flat_root == { <<"service", "notification">>, <<"version", "1.0.0">> }

\* Variant: the metrics sub-application mounted at the root path.
PackageRegistrations_MountAtRoot ==
    << Mount(<<>>, "metrics_app"),
       Get(<<"/", "health">>, "health_check"),
       Get(<<"/">>, "root") >>

\* services/notification/notification/main.py
PackageRegistrations ==
    << Mount(<<"/", "metrics">>, "metrics_app"),
       Get(<<"/", "health">>, "health_check"),
       Get(<<"/">>, "root") >>

\* Variant: a different status word.
health_check_Ok == { <<"status", "ok">> }

health_check == { <<"status", "healthy">> }

root == { <<"service", "notification">>, <<"version", "1.0.0">> }

Registrations(m) == IF m = EntryFlat THEN FlatRegistrations ELSE PackageRegistrations

Endpoint(m, name) ==
    IF m = EntryFlat
    THEN (IF name = "health_check" THEN flat_health_check ELSE flat_root)
    ELSE (IF name = "health_check" THEN health_check ELSE root)

PrometheusContentType == "text/plain; version=0.0.4; charset=utf-8"

Response(status, media, location, body, handler) ==
    [status |-> status, contentType |-> media, location |-> location,
     body |-> body, handler |-> handler]

\* The sub-application made by make_asgi_app(): the registry's exposition text.
metrics_app(req) == Response(200, PrometheusContentType, <<>>, {}, "metrics_app")

\* A mount at /metrics matches /metrics/<anything>; a route matches its own
\* path, fully when the method is one of its methods.
Matches(route, req) ==
    IF route.kind = "mount"
    THEN (IF /\ Len(req.path) > Len(route.path)
             /\ SubSeq(req.path, 1, Len(route.path)) = route.path
             /\ req.path[Len(route.path) + 1] = "/"
          THEN "FULL" ELSE "NONE")
    ELSE (IF req.path # route.path THEN "NONE"
          ELSE IF req.method \in route.methods THEN "FULL" ELSE "PARTIAL")

HandleRoute(m, route, req) ==
    IF route.kind = "mount" THEN metrics_app(req)
    ELSE IF req.method \in route.methods
    THEN Response(200, "application/json", <<>>, Endpoint(m, route.endpoint), route.endpoint)
    ELSE Response(405, "application/json", <<>>, { <<"detail", "Method Not Allowed">> }, route.endpoint)

RECURSIVE RStripSlash(_)
RStripSlash(path) ==
    IF path # <<>> /\ path[Len(path)] = "/" THEN RStripSlash(SubSeq(path, 1, Len(path) - 1)) ELSE path

RedirectPath(path) == IF path[Len(path)] = "/" THEN RStripSlash(path) ELSE Append(path, "/")

First(rs, req, kind) ==
    LET hits == {i \in DOMAIN rs : Matches(rs[i], req) = kind}
    IN  IF hits = {} THEN 0 ELSE CHOOSE i \in hits : \A j \in hits : i <= j

\* The routes FastAPI() itself adds before line 10 (/openapi.json, /docs,
\* /redoc) are the same in both modules and match none of Paths; they are
\* left out of the route table.
\* The router: the first full match, else the first partial match, else a
\* redirect when the path with its trailing slash toggled matches, else 404.
Dispatch(rs, m, req) ==
    LET full == First(rs, req, "FULL")
        partial == First(rs, req, "PARTIAL")
        toggled == [req EXCEPT !.path = RedirectPath(req.path)]
    IN  IF full # 0 THEN HandleRoute(m, rs[full], req)
        ELSE IF partial # 0 THEN HandleRoute(m, rs[partial], req)
        ELSE IF req.path # <<"/">> /\ \E i \in DOMAIN rs : Matches(rs[i], toggled) # "NONE"
        THEN Response(307, "", <<toggled.path>>, {}, "redirect_slashes")
        ELSE Response(404, "application/json", <<>>, { <<"detail", "Not Found">> }, "not_found")

-----------------------------------------------------------------------------
(* The __main__ blocks *)

FlatHost == "0.0.0.0"

FlatPort == 8080

RECURSIVE FormatNat(_)
FormatNat(n) ==
    IF n < 10 THEN << <<"0", "1", "2", "3", "4", "5", "6", "7", "8", "9">>[n + 1] >>
    ELSE Append(FormatNat(n \div 10), <<"0", "1", "2", "3", "4", "5", "6", "7", "8", "9">>[(n % 10) + 1])

FormatInt(n) == IF n < 0 THEN <<"-">> \o FormatNat(0 - n) ELSE FormatNat(n)

StartupLine(host, port) == <<"Starting Notification service on ", host, ":", FormatInt(port)>>

Bindable(port) == port \in 0..65535

-----------------------------------------------------------------------------
(* The process *)

Init ==
    /\ entry \in Entries
    /\ env \in Environments
    /\ pc = "import"
    /\ routes = <<>>
    /\ config = <<>>
    /\ nLoads = 0
    /\ stdout = <<>>
    /\ bound = <<>>
    /\ exitReason = <<>>
    /\ inflight = EmptyBag
    /\ last = <<>>

\* app.mount / @app.get, one registration per step, in source order
Register ==
    /\ pc = "import"
    /\ routes' = Append(routes, Registrations(entry)[Len(routes) + 1])
    /\ pc' = IF Len(routes') = Len(Registrations(entry)) THEN "main" ELSE "import"
    /\ UNCHANGED <<entry, env, config, nLoads, stdout, bound, exitReason, inflight, last>>

\* notification/main.py: config = load_config()
LoadConfig ==
    /\ pc = "main"
    /\ entry = EntryPackage
    /\ nLoads' = nLoads + 1
    /\ IF load_config(env).ok
       THEN /\ config' = <<[server |-> load_config(env).server[1]]>>
            /\ pc' = "loaded"
            /\ UNCHANGED exitReason
       ELSE /\ pc' = "exited"
            /\ exitReason' = <<"ValidationError">>
            /\ UNCHANGED config
    /\ UNCHANGED <<entry, env, routes, stdout, bound, inflight, last>>

\* notification/main.py: print(f"Starting Notification service on ...")
PrintStartup ==
    /\ pc = "loaded"
    /\ stdout' = Append(stdout, StartupLine(config[1].server.host, config[1].server.port))
    /\ pc' = "logged"
    /\ UNCHANGED <<entry, env, routes, config, nLoads, bound, exitReason, inflight, last>>

\* uvicorn.run(app, host, port): the socket is bound and the server serves,
\* or the bind fails and the process ends.
uvicorn_run(host, port) ==
    \/ /\ Bindable(port)
       /\ bound' = <<[host |-> host, port |-> port]>>
       /\ pc' = "serving"
       /\ UNCHANGED exitReason
    \/ /\ pc' = "exited"
       /\ exitReason' = <<"BindError">>
       /\ UNCHANGED bound

\* notification/main.py: uvicorn.run(app, host=config.server.host, port=config.server.port)
RunPackage ==
    /\ pc = "logged"
    /\ uvicorn_run(config[1].server.host, config[1].server.port)
    /\ UNCHANGED <<entry, env, routes, config, nLoads, stdout, inflight, last>>

\* main.py: uvicorn.run(app, host="0.0.0.0", port=8080)
RunFlat ==
    /\ pc = "main"
    /\ entry = EntryFlat
    /\ uvicorn_run(FlatHost, FlatPort)
    /\ UNCHANGED <<entry, env, routes, config, nLoads, stdout, inflight, last>>

\* a request arrives while others are still being handled
Receive(req) ==
    /\ pc = "serving"
    /\ BagCardinality(inflight) < MaxInflight
    /\ inflight' = inflight (+) SetToBag({req})
    /\ UNCHANGED <<entry, env, pc, routes, config, nLoads, stdout, bound, exitReason, last>>

\* Variant: a handler that refuses while another request is in flight.
Respond_Busy(req) ==
    /\ pc = "serving"
    /\ BagIn(req, inflight)
    /\ last' = <<[req |-> req,
                  resp |-> IF BagCardinality(inflight) > 1
                           THEN Response(503, "application/json", <<>>, { <<"detail", "busy">> }, "busy")
                           ELSE Dispatch(routes, entry, req)]>>
    /\ inflight' = inflight (-) SetToBag({req})
    /\ UNCHANGED <<entry, env, pc, routes, config, nLoads, stdout, bound, exitReason>>

\* Variant: a handler that loads the configuration again on every request.
Respond_ReloadsConfig(req) ==
    /\ pc = "serving"
    /\ BagIn(req, inflight)
    /\ last' = <<[req |-> req, resp |-> Dispatch(routes, entry, req)]>>
    /\ inflight' = inflight (-) SetToBag({req})
    /\ nLoads' = nLoads + 1
    /\ config' = IF load_config(env).ok THEN <<[server |-> load_config(env).server[1]]>> ELSE config
    /\ UNCHANGED <<entry, env, pc, routes, stdout, bound, exitReason>>

\* the application answers one of the requests in flight
Respond(req) ==
    /\ pc = "serving"
    /\ BagIn(req, inflight)
    /\ last' = <<[req |-> req, resp |-> Dispatch(routes, entry, req)]>>
    /\ inflight' = inflight (-) SetToBag({req})
    /\ UNCHANGED <<entry, env, pc, routes, config, nLoads, stdout, bound, exitReason>>

\* the process is stopped from outside
Terminate ==
    /\ pc = "serving"
    /\ pc' = "exited"
    /\ exitReason' = <<"signal">>
    /\ inflight' = EmptyBag
    /\ UNCHANGED <<entry, env, routes, config, nLoads, stdout, bound, last>>

Next ==
    \/ Register
    \/ LoadConfig
    \/ PrintStartup
    \/ RunPackage
    \/ RunFlat
    \/ \E req \in Requests : Receive(req)
    \/ \E req \in Requests : Respond(req)
    \/ Terminate

Spec == Init /\ [][Next]_vars

-----------------------------------------------------------------------------
(* Properties *)

GetRequest(path) == [method |-> "GET", path |-> path]

Answered(req) == last # <<>> /\ last[1].req = req

Other(m) == IF m = EntryFlat THEN EntryPackage ELSE EntryFlat

\* The port texts that are the text of an integer, each with that integer.
IntegerTexts ==
    { << <<"9", "0", "9", "0">>, 9090 >>, << <<"8", "0", "8", "0">>, 8080 >>,
      << <<"0">>, 0 >>, << <<"6", "5", "5", "3", "6">>, 65536 >>, << <<"-", "1">>, 0 - 1 >>,
      << <<"+", "8", "0">>, 80 >>, << <<"0", "0", "7">>, 7 >> }

PortIsInteger(p) == env.port # <<>> /\ <<env.port[1], p>> \in IntegerTexts

PortIsNoInteger == env.port = <<>> \/ \A t \in IntegerTexts : t[1] # env.port[1]

ExpectedHost == IF env.host = <<>> THEN "0.0.0.0" ELSE env.host[1]

\* C1: whenever the serving process has answered GET /health, the answer is
\* status 200 with body exactly {"status": "healthy"}, produced by the health
\* handler; no other outcome exists for that request.
C1_HealthAlwaysHealthy ==
    Answered(GetRequest(<<"/", "health">>)) =>
        /\ last[1].resp.status = 200
        /\ last[1].resp.body = { <<"status", "healthy">> }
        /\ last[1].resp.handler = "health_check"

C1_Witness ==
    /\ Answered(GetRequest(<<"/", "health">>))
    /\ last[1].resp.status = 200
    /\ BagCardinality(inflight) > 0

\* C2: whenever the serving process has answered GET /, the answer is status
\* 200 with body exactly {"service": "notification", "version": "1.0.0"} and
\* comes from the root handler, not from the sub-application mounted at
\* /metrics, although the mount is the first registration.
C2_RootMetadata ==
    Answered(GetRequest(<<"/">>)) =>
        /\ last[1].resp.status = 200
        /\ last[1].resp.body = { <<"service", "notification">>, <<"version", "1.0.0">> }
        /\ last[1].resp.handler = "root"
        /\ routes[1].kind = "mount"

C2_Witness ==
    /\ Answered(GetRequest(<<"/">>))
    /\ last[1].resp.handler = "root"
    /\ routes[1].kind = "mount"

\* C3: once the configuration has been loaded in an environment whose
\* NOTIFICATION_SERVER_PORT is the text of an integer p, loading has succeeded
\* and the settings hold port p and the host of NOTIFICATION_SERVER_HOST, or
\* "0.0.0.0" when that variable is unset.
C3_LoadsIntegerPort ==
    \A t \in IntegerTexts :
        (nLoads = 1 /\ PortIsInteger(t[2])) =>
            /\ exitReason # <<"ValidationError">>
            /\ config = <<[server |-> [host |-> ExpectedHost, port |-> t[2]]]>>

C3_Witness ==
    /\ nLoads = 1
    /\ env = [host |-> <<"127.0.0.1">>, port |-> << <<"9", "0", "9", "0">> >>]
    /\ config = <<[server |-> [host |-> "127.0.0.1", port |-> 9090]]>>

\* C4: once the configuration has been loaded in an environment whose
\* NOTIFICATION_SERVER_PORT is unset or is not the text of an integer, loading
\* has failed with a validation error, the process has ended and no settings
\* object exists.
C4_RejectsMissingOrBadPort ==
    (nLoads = 1 /\ PortIsNoInteger) =>
        /\ config = <<>>
        /\ pc = "exited"
        /\ exitReason = <<"ValidationError">>

C4_Witness ==
    /\ nLoads = 1
    /\ env = [host |-> <<"127.0.0.1">>, port |-> << <<"9", "0", "x">> >>]
    /\ config = <<>>
    /\ exitReason = <<"ValidationError">>

\* C5: the server is started only after the settings were loaded and the
\* startup line was printed, in that order; in an environment in which loading
\* the settings fails, nothing is printed, no server is started and no request
\* is answered.
C5_LoadLogServe ==
    /\ stdout # <<>> => config # <<>>
    /\ bound # <<>> => (config # <<>> /\ stdout # <<>>)
    /\ PortIsNoInteger => (stdout = <<>> /\ bound = <<>> /\ last = <<>>)

\* C6: whenever the server has been started, the address it is bound to is the
\* host and port of the settings loaded from the environment, which is also
\* the address in the startup line.
C6_BindsConfiguredAddress ==
    bound # <<>> =>
        /\ config # <<>>
        /\ bound[1] = config[1].server
        /\ stdout = <<StartupLine(bound[1].host, bound[1].port)>>
        /\ \E t \in IntegerTexts : PortIsInteger(t[2]) /\ bound[1] = [host |-> ExpectedHost, port |-> t[2]]

\* C7: whenever the serving process has answered GET /metrics (no trailing
\* slash), the answer comes from the metrics sub-application with status 200
\* and the Prometheus text content type; it is no redirect.
C7_MetricsServedDirectly ==
    Answered(GetRequest(<<"/", "metrics">>)) =>
        /\ last[1].resp.status = 200
        /\ last[1].resp.contentType = "text/plain; version=0.0.4; charset=utf-8"
        /\ last[1].resp.handler = "metrics_app"
        /\ last[1].resp.location = <<>>

\* The response a freshly imported application of module m gives to req when
\* req is the only request it ever serves.
SoloResponse(m, req) == Dispatch(Registrations(m), m, req)

\* C8: whatever else is in flight and whatever was answered before, a request
\* to /health or / gets the response it would get as the only request ever
\* served, and serving leaves the route table as the import left it.
C8_NoCrossRequestState ==
    /\ pc = "serving" => routes = Registrations(entry)
    /\ \A req \in Requests :
          (Answered(req) /\ req.path \in { <<"/">>, <<"/", "health">> }) =>
              last[1].resp = SoloResponse(entry, req)

C8_Witness ==
    /\ Answered(GetRequest(<<"/", "health">>))
    /\ BagIn(GetRequest(<<"/", "health">>), inflight)
    /\ BagIn(GetRequest(<<"/">>), inflight)

\* C9: at most one settings object is constructed per process; once it exists
\* it holds, in every later state and while requests are served, the host and
\* port bound from the environment at startup.
C9_SettingsBuiltOnceAndFixed ==
    /\ nLoads <= 1
    /\ config # <<>> =>
          /\ nLoads = 1
          /\ \E t \in IntegerTexts :
                /\ PortIsInteger(t[2])
                /\ config[1].server = [host |-> ExpectedHost, port |-> t[2]]

C9_Witness ==
    /\ config # <<>>
    /\ pc = "serving"
    /\ last # <<>>
    /\ BagCardinality(inflight) > 0

\* C10: the two modules register the same routes in the same order (mount
\* /metrics, GET /health, GET /), and every answer to a request for /health or
\* / has the status and body the other module's application gives to it.
C10_ModulesEquivalent ==
    /\ routes = SubSeq(Registrations(Other(entry)), 1, Len(routes))
    /\ pc # "import" =>
          /\ Len(routes) = 3
          /\ routes[1].kind = "mount" /\ routes[1].path = <<"/", "metrics">>
          /\ routes[2].kind = "route" /\ routes[2].path = <<"/", "health">> /\ routes[2].methods = {"GET"}
          /\ routes[3].kind = "route" /\ routes[3].path = <<"/">> /\ routes[3].methods = {"GET"}
    /\ \A req \in Requests :
          (Answered(req) /\ req.path \in { <<"/">>, <<"/", "health">> }) =>
              /\ last[1].resp.status = SoloResponse(Other(entry), req).status
              /\ last[1].resp.body = SoloResponse(Other(entry), req).body

C10_Witness ==
    /\ entry = EntryFlat
    /\ Len(routes) = 3
    /\ Answered(GetRequest(<<"/">>))

=============================================================================
